---- MODULE Spec2Model ----
(***************************************************************************)
(* Model of the useWebSocket hook (src/client/src/hooks/useWebSocket.ts):  *)
(* a React hook that owns one WebSocket, three tracked timers, two         *)
(* untracked timers (the 50 ms mount delay and the 100 ms manual-reconnect *)
(* grace delay) and the React state it emits.                              *)
(*                                                                         *)
(* Every handler of the hook is one action.  A handler is a sequence of    *)
(* synchronous calls, so the hook's functions are operators from a record  *)
(* of the hook's state to the record after the call; an action applies the *)
(* composed operator to the current state.                                 *)
(*                                                                         *)
(* Transport semantics are the browser's WebSocket: the readyState change  *)
(* and the dispatch of the open / close event happen in one task; close()  *)
(* moves the socket to CLOSING at once and the close event follows in a    *)
(* later task; message events are dispatched only while OPEN.              *)
(*                                                                         *)
(* A WebSocket that is closed, detached from its handlers and no longer    *)
(* referenced by the hook is garbage: its slot is free for a later socket. *)
(* A timer handle whose timer has run or was cleared behaves as null       *)
(* (clearTimeout of it does nothing), so a timer ref is "pending" or       *)
(* "null".                                                                 *)
(*                                                                         *)
(* Delays are kept in quarter milliseconds where the code computes with    *)
(* fractions (2000 * 1.5^(n-1) is a multiple of 0.25 up to the cap).       *)
(***************************************************************************)
EXTENDS Integers, Sequences, FiniteSets, TLC

\* ------------------------------------------------------------- bounds
MaxSockets == 2
MaxAttempts == 3
MaxGrace == 1
MaxStreak == 8
MaxBurst == 3
MaxTicks == 3

\* ---------------------------------------------------------- constants
RECONNECT_DELAY == 2000
MAX_RECONNECT_DELAY == 30000
JITTER_MAX == 1000
CLEANUP_CODE == 1000
MAX_SIGNALS == 500
SESSION_TTL == 86400000
MAX_TRADES == 20
SECONDS_PER_DAY == 86400

\* Math.random() * 1000, in quarter milliseconds: 0 and 999.75 ms.
JitterQ == {0, 4 * JITTER_MAX - 1}

\* The slots of the WebSockets alive at one time.
Sockets == 1..MaxSockets

\* event.code / event.reason of a close event the server or network produces
\* (1000 normal, 1001 going away, 1006 abnormal closure).
CloseCodes == {1000, 1001, 1006}
CloseReasons == {"Client cleanup", ""}

\* MarketData payloads (0 is a missing / null data field) and history lists.
Payloads == {1, 2}
HistoryLists == {<<>>, <<1>>, <<2, 1>>}

\* A frame as onmessage sees it: ok is whether JSON.parse accepts it, hasData
\* and hasHist whether message.data and message.signal_history are truthy.
\* data is the MarketData payload of a market_data frame; hist is the list a
\* frame carries (signal_history of market_data, data of signal_history).
Frame(ok, type, d, hasData, h, hasHist) ==
  [ok |-> ok, type |-> type, data |-> d, hasData |-> hasData, hist |-> h,
   hasHist |-> hasHist]

Frames ==
  {Frame(FALSE, "market_data", 0, FALSE, <<>>, FALSE)}
  \cup {Frame(TRUE, "market_data", d, d # 0, h, TRUE) :
          d \in Payloads \cup {0}, h \in HistoryLists}
  \cup {Frame(TRUE, "market_data", d, d # 0, <<>>, FALSE) :
          d \in Payloads \cup {0}}
  \cup {Frame(TRUE, "signal_history", 0, TRUE, h, FALSE) : h \in HistoryLists}
  \cup {Frame(TRUE, "signal_history", 0, FALSE, <<>>, FALSE)}
  \cup {Frame(TRUE, ty, 0, FALSE, <<>>, FALSE) :
          ty \in {"connection", "pong", "other"}}
  \cup {Frame(TRUE, ty, 1, TRUE, <<1>>, TRUE) :
          ty \in {"connection", "pong", "other"}}

VARIABLES
  ready,                 \* ready[s]: readyState of socket s ("NONE": no socket)
  handlers,              \* handlers[s]: onopen/onclose/onerror/onmessage are set
  wsRef,                 \* wsRef.current (0 is null)
  reconnectTimeoutRef,   \* "null" or "pending"
  connectionTimeoutRef,  \* "null" or "pending"
  connectionTimeoutWs,   \* the ws the pending connection timeout captured
  pingIntervalRef,       \* "null" or "pending"
  reconnectAttemptsRef,
  isMountedRef,
  isCleaningUpRef,
  connectionStateRef,    \* "disconnected", "connecting", "connected"
  data,                  \* React state: 0 is null
  isConnected,
  error,                 \* React state: [kind, secs]
  signalHistory,
  delay,                 \* the delay of the pending reconnect timer, in ms
  connectTimeout,        \* the 50 ms timer of the lifecycle effect is pending
  graceTimers,           \* pending 100 ms timers of reconnect()
  listening,             \* the effects are set up (listeners registered)
  lastPingWs,            \* the socket the last ping frame was sent on
  reconnectTimers,       \* reconnect timers set and neither fired nor cleared
  connectionTimers,      \* connection timeouts set, neither fired nor cleared
  authState,             \* AuthProvider's state: [isAuthenticated, isLoading, error]
  stored,                \* what localStorage holds under STORAGE_KEY
  authPhase,             \* AuthProvider: "restoring", "idle" or "connecting"
  tradeHistory,          \* App's React state: the trade entries, first is newest
  now                    \* the clock, in seconds

vars == <<ready, handlers, wsRef, reconnectTimeoutRef, connectionTimeoutRef,
          connectionTimeoutWs, pingIntervalRef, reconnectAttemptsRef,
          isMountedRef, isCleaningUpRef, connectionStateRef, data, isConnected,
          error, signalHistory, delay, connectTimeout, graceTimers, listening,
          lastPingWs, reconnectTimers, connectionTimers, authState, stored,
          authPhase, tradeHistory, now>>

\* The hook's own variables.
hookVars == <<ready, handlers, wsRef, reconnectTimeoutRef, connectionTimeoutRef,
              connectionTimeoutWs, pingIntervalRef, reconnectAttemptsRef,
              isMountedRef, isCleaningUpRef, connectionStateRef, data,
              isConnected, error, signalHistory, delay, connectTimeout,
              graceTimers, listening, lastPingWs, reconnectTimers,
              connectionTimers>>

\* The trade history of App and the clock its entries are stamped with.
appVars == <<tradeHistory, now>>

\* The variables of the authentication gate.
authVars == <<authState, stored, authPhase>>

\* The hook's state as one record, and the assignment of a record to the
\* next state.
St ==
  [ready |-> ready, handlers |-> handlers, wsRef |-> wsRef,
   reconnectTimeoutRef |-> reconnectTimeoutRef,
   connectionTimeoutRef |-> connectionTimeoutRef,
   connectionTimeoutWs |-> connectionTimeoutWs,
   pingIntervalRef |-> pingIntervalRef,
   reconnectAttemptsRef |-> reconnectAttemptsRef,
   isMountedRef |-> isMountedRef, isCleaningUpRef |-> isCleaningUpRef,
   connectionStateRef |-> connectionStateRef, data |-> data,
   isConnected |-> isConnected, error |-> error,
   signalHistory |-> signalHistory, delay |-> delay,
   connectTimeout |-> connectTimeout, graceTimers |-> graceTimers,
   listening |-> listening, lastPingWs |-> lastPingWs,
   reconnectTimers |-> reconnectTimers,
   connectionTimers |-> connectionTimers, overflow |-> FALSE]

\* A socket nothing refers to any more and that will produce no event.
Garbage(r, ws) ==
  r.ready[ws] = "CLOSED" /\ ~r.handlers[ws] /\ r.wsRef # ws

Collect(r) ==
  [r EXCEPT !.ready = [ws \in Sockets |->
                         IF Garbage(r, ws) THEN "NONE" ELSE r.ready[ws]],
            !.lastPingWs = IF @ # 0 /\ Garbage(r, @) THEN 0 ELSE @,
            !.delay = IF r.reconnectTimeoutRef = "null" THEN 0 ELSE @]

\* The bounds of the model: the step is taken only if its result is within.
Fits(r, maxAttempts, maxGrace) ==
  /\ r.overflow = FALSE
  /\ r.reconnectAttemptsRef <= maxAttempts
  /\ r.graceTimers <= maxGrace

SetBounded(r0, maxAttempts, maxGrace) ==
  \E r \in {Collect(r0)} :
  /\ Fits(r, maxAttempts, maxGrace)
  /\ ready' = r.ready
  /\ handlers' = r.handlers
  /\ wsRef' = r.wsRef
  /\ reconnectTimeoutRef' = r.reconnectTimeoutRef
  /\ connectionTimeoutRef' = r.connectionTimeoutRef
  /\ connectionTimeoutWs' = r.connectionTimeoutWs
  /\ pingIntervalRef' = r.pingIntervalRef
  /\ reconnectAttemptsRef' = r.reconnectAttemptsRef
  /\ isMountedRef' = r.isMountedRef
  /\ isCleaningUpRef' = r.isCleaningUpRef
  /\ connectionStateRef' = r.connectionStateRef
  /\ data' = r.data
  /\ isConnected' = r.isConnected
  /\ error' = r.error
  /\ signalHistory' = r.signalHistory
  /\ delay' = r.delay
  /\ connectTimeout' = r.connectTimeout
  /\ graceTimers' = r.graceTimers
  /\ listening' = r.listening
  /\ lastPingWs' = r.lastPingWs
  /\ reconnectTimers' = r.reconnectTimers
  /\ connectionTimers' = r.connectionTimers
  /\ UNCHANGED appVars

SetHook(r0, maxAttempts) == SetBounded(r0, maxAttempts, MaxGrace)

\* A step of the hook: the authentication gate is left alone.
SetWithin(r0, maxAttempts) == SetHook(r0, maxAttempts) /\ UNCHANGED authVars

Set(r0) == SetWithin(r0, MaxAttempts)

Err(kind) == [kind |-> kind, secs |-> 0]

\* What localStorage can hold under STORAGE_KEY: nothing, a session younger
\* than 24 hours, an older one, or unparsable text.
StoredSessions == {"none", "valid", "expired", "corrupt"}

\* The same and three more: a session exactly 24 hours old, one without
\* address and one without timestamp.
StoredContents ==
  StoredSessions \cup {"atLimit", "noAddress", "noTimestamp"}

\* JSON.parse of the stored text: whether it parses, whether the object has a
\* (non-empty) address and a timestamp, and Date.now() - timestamp in ms at
\* the page load.
Parsed(st) ==
  [ok |-> st # "corrupt",
   hasAddress |-> st # "noAddress",
   hasTimestamp |-> st # "noTimestamp",
   age |-> IF st = "expired" THEN SESSION_TTL + 1
           ELSE IF st = "atLimit" THEN SESSION_TTL
           ELSE 0]

\* Date.now() - parsed.timestamp > 24 * 60 * 60 * 1000: without a timestamp
\* the difference is NaN, and every comparison with NaN is false.
isExpired(p) == p.hasTimestamp /\ p.age > SESSION_TTL

\* error is "null" or "message" (the text of an error).
AuthStates ==
  [isAuthenticated : BOOLEAN, isLoading : BOOLEAN, error : {"null", "message"}]

\* useState<AuthState>({isAuthenticated: false, ..., isLoading: true, ...})
AuthInitial ==
  [isAuthenticated |-> FALSE, isLoading |-> TRUE, error |-> "null"]

\* The state every successful login, restore or disconnect sets whole.
AuthSet(isAuthenticated) ==
  [isAuthenticated |-> isAuthenticated, isLoading |-> FALSE, error |-> "null"]

\* The ways connect() can end: "ok", or the step that threw.
LoginFailures ==
  {"no wallet", "accounts rejected", "no account", "challenge rejected",
   "signing rejected", "verification rejected", "storage rejected"}

LoginOutcomes == LoginFailures \cup {"ok"}

\* The hook of a freshly rendered App.
InitHook ==
  /\ ready = [ws \in Sockets |-> "NONE"]
  /\ handlers = [ws \in Sockets |-> FALSE]
  /\ wsRef = 0
  /\ reconnectTimeoutRef = "null"
  /\ connectionTimeoutRef = "null"
  /\ connectionTimeoutWs = 0
  /\ reconnectTimers = 0
  /\ connectionTimers = 0
  /\ pingIntervalRef = "null"
  /\ reconnectAttemptsRef = 0
  /\ isMountedRef = FALSE
  /\ isCleaningUpRef = FALSE
  /\ connectionStateRef = "disconnected"
  /\ data = 0
  /\ isConnected = FALSE
  /\ error = Err("null")
  /\ signalHistory = <<>>
  /\ delay = 0
  /\ connectTimeout = FALSE
  /\ graceTimers = 0
  /\ listening = FALSE
  /\ lastPingWs = 0

\* useState<TradeEntry[]>([]), and the clock at the page load.
InitApp == tradeHistory = <<>> /\ now = 0

\* The hook on its own: the gate stays open, with the user authenticated.
Init ==
  /\ InitHook
  /\ InitApp
  /\ authState = AuthSet(TRUE)
  /\ stored = "valid"
  /\ authPhase = "idle"

\* The page load: AuthProvider has just been constructed.
InitAuth ==
  /\ InitHook
  /\ InitApp
  /\ authState = AuthInitial
  /\ stored \in StoredSessions
  /\ authPhase = "restoring"

\* ------------------------------------------------------ the hook's code

Min(a, b) == IF a <= b THEN a ELSE b

\* Faulty variant of BaseDelayQ: the Math.min with MAX_RECONNECT_DELAY is missing.
BaseDelayUncapped(n) == (4 * RECONNECT_DELAY * 3 ^ (n - 1)) \div (2 ^ (n - 1))

\* Math.min(RECONNECT_DELAY * Math.pow(1.5, n - 1), MAX_RECONNECT_DELAY), in
\* quarter milliseconds.
BaseDelayQ(n) ==
  Min((4 * RECONNECT_DELAY * 3 ^ (n - 1)) \div (2 ^ (n - 1)),
      4 * MAX_RECONNECT_DELAY)

\* Faulty variant of Delay: Math.ceil instead of Math.floor.
DelayCeil(n, jQ) == (BaseDelayQ(n) + jQ + 3) \div 4

\* Math.floor(baseDelay + jitter), in milliseconds; jQ in quarter milliseconds.
Delay(n, jQ) == (BaseDelayQ(n) + jQ) \div 4

\* Math.round(delay / 1000)
RoundSecs(d) == (d + 500) \div 1000

\* WebSocket.close(): CONNECTING and OPEN go to CLOSING, otherwise nothing.
Close(s, ws) ==
  IF s.ready[ws] \in {"CONNECTING", "OPEN"}
  THEN [s EXCEPT !.ready[ws] = "CLOSING"]
  ELSE s

\* Faulty variant of Detach: the handlers stay on the socket.
DetachKeepsHandlers(s, ws) == s

\* Setting the four handler slots of ws to null.
Detach(s, ws) == [s EXCEPT !.handlers[ws] = FALSE]

\* clearTimeout(ref) where ref holds a timer id: the timers left of n. The
\* model's ref is "null" once its timer has fired, when the code's stale id
\* makes clearTimeout do nothing.
Cleared(ref, n) == IF ref = "pending" THEN n - 1 ELSE n

\* Faulty variant of clearTimers: the reconnect timer is left pending.
clearTimersKeepsReconnect(s) ==
  [s EXCEPT !.connectionTimeoutRef = "null",
            !.connectionTimers = Cleared(s.connectionTimeoutRef, @),
            !.connectionTimeoutWs = 0,
            !.pingIntervalRef = "null"]

\* Faulty variant of clearTimers: the connection timeout is left pending.
clearTimersKeepsConnectionTimeout(s) ==
  [s EXCEPT !.reconnectTimeoutRef = "null",
            !.reconnectTimers = Cleared(s.reconnectTimeoutRef, @),
            !.pingIntervalRef = "null"]

\* Faulty variant of clearTimers: the ping interval is left running.
clearTimersKeepsPing(s) ==
  [s EXCEPT !.reconnectTimeoutRef = "null",
            !.reconnectTimers = Cleared(s.reconnectTimeoutRef, @),
            !.connectionTimeoutRef = "null",
            !.connectionTimers = Cleared(s.connectionTimeoutRef, @),
            !.connectionTimeoutWs = 0]

clearTimers(s) ==
  [s EXCEPT !.reconnectTimeoutRef = "null",
            !.reconnectTimers = Cleared(s.reconnectTimeoutRef, @),
            !.connectionTimeoutRef = "null",
            !.connectionTimers = Cleared(s.connectionTimeoutRef, @),
            !.connectionTimeoutWs = 0,
            !.pingIntervalRef = "null"]

\* Faulty variant of cleanup: the socket is detached and dropped but never closed.
cleanupNoClose(s, closeSocket) ==
  LET s1 == clearTimers([s EXCEPT !.isCleaningUpRef = TRUE])
      s2 == IF s1.wsRef # 0 /\ closeSocket
            THEN [Detach(s1, s1.wsRef) EXCEPT !.wsRef = 0]
            ELSE s1
  IN [s2 EXCEPT !.connectionStateRef = "disconnected",
                !.isCleaningUpRef = FALSE]

\* Faulty variant of cleanup: the snapshot and the history are dropped too.
cleanupResetsData(s, closeSocket) ==
  LET s1 == clearTimers([s EXCEPT !.isCleaningUpRef = TRUE])
      s2 == IF s1.wsRef # 0 /\ closeSocket
            THEN [Close(Detach(s1, s1.wsRef), s1.wsRef) EXCEPT !.wsRef = 0]
            ELSE s1
  IN [s2 EXCEPT !.connectionStateRef = "disconnected",
                !.isCleaningUpRef = FALSE,
                !.data = 0,
                !.signalHistory = <<>>]

cleanup(s, closeSocket) ==
  LET s1 == clearTimers([s EXCEPT !.isCleaningUpRef = TRUE])
      s2 == IF s1.wsRef # 0 /\ closeSocket
            THEN [Close(Detach(s1, s1.wsRef), s1.wsRef) EXCEPT !.wsRef = 0]
            ELSE s1
  IN [s2 EXCEPT !.connectionStateRef = "disconnected",
                !.isCleaningUpRef = FALSE]

startPingInterval(s) == [s EXCEPT !.pingIntervalRef = "pending"]

\* Faulty variant of scheduleReconnect: the status is set but no timer armed.
scheduleReconnectStatusOnly(s, jQ) ==
  IF ~s.isMountedRef \/ s.isCleaningUpRef
  THEN s
  ELSE LET n == s.reconnectAttemptsRef + 1
           d == Delay(n, jQ)
       IN [s EXCEPT !.reconnectAttemptsRef = n,
                    !.error = [kind |-> "Reconnecting", secs |-> RoundSecs(d)]]

scheduleReconnect(s, jQ) ==
  IF ~s.isMountedRef \/ s.isCleaningUpRef
  THEN s
  ELSE LET n == s.reconnectAttemptsRef + 1
           d == Delay(n, jQ)
       IN [s EXCEPT !.reconnectAttemptsRef = n,
                    !.delay = d,
                    !.error = [kind |-> "Reconnecting", secs |-> RoundSecs(d)],
                    !.reconnectTimers = Cleared(s.reconnectTimeoutRef, @) + 1,
                    !.reconnectTimeoutRef = "pending"]

\* Faulty variant of connect: the timers armed earlier are left alone.
connectKeepsTimers(s, throws, jQ) ==
  IF ~s.isMountedRef \/ s.isCleaningUpRef
  THEN s
  ELSE IF s.wsRef # 0 /\ s.ready[s.wsRef] \in {"OPEN", "CONNECTING"}
  THEN s
  ELSE
    LET s1 == IF s.wsRef # 0
              THEN [Detach(s, s.wsRef) EXCEPT !.wsRef = 0]
              ELSE s
        s2 == [s1 EXCEPT !.connectionStateRef = "connecting",
                         !.error = Err("Connecting")]
        free == {w \in Sockets : s.ready[w] = "NONE"}
        ws == IF free = {} THEN 0 ELSE CHOOSE w \in free : \A v \in free : w <= v
    IN IF throws
       THEN LET s3 == [s2 EXCEPT !.connectionStateRef = "disconnected",
                                 !.error = Err("Failed to create connection"),
                                 !.isConnected = FALSE]
            IN IF s3.isMountedRef THEN scheduleReconnect(s3, jQ) ELSE s3
       ELSE IF ws = 0 THEN [s2 EXCEPT !.overflow = TRUE]
       ELSE [s2 EXCEPT !.ready[ws] = "CONNECTING",
                       !.handlers[ws] = TRUE,
                       !.wsRef = ws,
                       !.connectionTimeoutRef = "pending",
                       !.connectionTimers = @ + 1,
                       !.connectionTimeoutWs = ws]

\* connect(): throws is whether new WebSocket(url) throws.
connect(s, throws, jQ) ==
  IF ~s.isMountedRef \/ s.isCleaningUpRef
  THEN s
  ELSE IF s.wsRef # 0 /\ s.ready[s.wsRef] \in {"OPEN", "CONNECTING"}
  THEN s
  ELSE
    LET s1 == IF s.wsRef # 0
              THEN [Detach(s, s.wsRef) EXCEPT !.wsRef = 0]
              ELSE s
        s2 == [clearTimers(s1) EXCEPT !.connectionStateRef = "connecting",
                                      !.error = Err("Connecting")]
        free == {w \in Sockets : s.ready[w] = "NONE"}
        ws == IF free = {} THEN 0 ELSE CHOOSE w \in free : \A v \in free : w <= v
    IN IF throws
       THEN LET s3 == [s2 EXCEPT !.connectionStateRef = "disconnected",
                                 !.error = Err("Failed to create connection"),
                                 !.isConnected = FALSE]
            IN IF s3.isMountedRef THEN scheduleReconnect(s3, jQ) ELSE s3
       ELSE IF ws = 0 THEN [s2 EXCEPT !.overflow = TRUE]
       ELSE [s2 EXCEPT !.ready[ws] = "CONNECTING",
                       !.handlers[ws] = TRUE,
                       !.wsRef = ws,
                       !.connectionTimeoutRef = "pending",
                       !.connectionTimers = @ + 1,
                       !.connectionTimeoutWs = ws]

\* The callback of the connection timeout that captured ws.
onConnectionTimeout(s, ws, jQ) ==
  LET s0 == [s EXCEPT !.connectionTimeoutRef = "null",
                      !.connectionTimers = @ - 1,
                      !.connectionTimeoutWs = 0]
  IN IF ws = s0.wsRef /\ s0.ready[ws] # "OPEN"
     THEN LET s1 == [Close(s0, ws) EXCEPT
                       !.connectionStateRef = "disconnected",
                       !.error = Err("Connection timeout"),
                       !.isConnected = FALSE]
          IN IF s1.isMountedRef THEN scheduleReconnect(s1, jQ) ELSE s1
     ELSE s0

\* Faulty variant of onopen: reconnectAttemptsRef is not reset.
onopenNoReset(s, ws) ==
  IF ws # s.wsRef
  THEN Close(s, ws)
  ELSE LET s1 == [s EXCEPT !.connectionStateRef = "connected",
                           !.isConnected = TRUE,
                           !.error = Err("null")]
           s2 == IF s1.connectionTimeoutRef # "null"
                 THEN [s1 EXCEPT !.connectionTimeoutRef = "null",
                                 !.connectionTimers = @ - 1,
                                 !.connectionTimeoutWs = 0]
                 ELSE s1
       IN startPingInterval(s2)

\* Faulty variant of onopen: the connection timeout is not cleared.
onopenKeepsTimeout(s, ws) ==
  IF ws # s.wsRef
  THEN Close(s, ws)
  ELSE startPingInterval([s EXCEPT !.connectionStateRef = "connected",
                                   !.isConnected = TRUE,
                                   !.error = Err("null"),
                                   !.reconnectAttemptsRef = 0])

onopen(s, ws) ==
  IF ws # s.wsRef
  THEN Close(s, ws)
  ELSE LET s1 == [s EXCEPT !.connectionStateRef = "connected",
                           !.isConnected = TRUE,
                           !.error = Err("null"),
                           !.reconnectAttemptsRef = 0]
           s2 == IF s1.connectionTimeoutRef # "null"
                 THEN [s1 EXCEPT !.connectionTimeoutRef = "null",
                                 !.connectionTimers = @ - 1,
                                 !.connectionTimeoutWs = 0]
                 ELSE s1
       IN startPingInterval(s2)

\* Faulty variant of onmessage: a frame that fails to parse drops the snapshot.
onmessageParseErrorResets(s, ws, f) ==
  IF ws # s.wsRef THEN s
  ELSE IF ~f.ok THEN [s EXCEPT !.data = 0]
  ELSE IF f.type = "market_data" /\ f.hasData
  THEN LET s1 == [s EXCEPT !.data = f.data, !.error = Err("null")]
       IN IF f.hasHist THEN [s1 EXCEPT !.signalHistory = f.hist] ELSE s1
  ELSE IF f.type = "signal_history" /\ f.hasData
  THEN [s EXCEPT !.signalHistory = f.hist]
  ELSE s

\* Faulty variant of onmessage: the history list of a market_data frame is
\* ignored.
onmessageKeepsHistory(s, ws, f) ==
  IF ws # s.wsRef THEN s
  ELSE IF ~f.ok THEN s
  ELSE IF f.type = "market_data" /\ f.hasData
  THEN [s EXCEPT !.data = f.data, !.error = Err("null")]
  ELSE IF f.type = "signal_history" /\ f.hasData
  THEN [s EXCEPT !.signalHistory = f.hist]
  ELSE s

\* Faulty variant of onmessage: a pong clears the error.
onmessagePongClearsError(s, ws, f) ==
  IF ws # s.wsRef THEN s
  ELSE IF ~f.ok THEN s
  ELSE IF f.type = "market_data" /\ f.hasData
  THEN LET s1 == [s EXCEPT !.data = f.data, !.error = Err("null")]
       IN IF f.hasHist THEN [s1 EXCEPT !.signalHistory = f.hist] ELSE s1
  ELSE IF f.type = "signal_history" /\ f.hasData
  THEN [s EXCEPT !.signalHistory = f.hist]
  ELSE IF f.type = "pong" THEN [s EXCEPT !.error = Err("null")]
  ELSE s

onmessage(s, ws, f) ==
  IF ws # s.wsRef THEN s
  ELSE IF ~f.ok THEN s
  ELSE IF f.type = "market_data" /\ f.hasData
  THEN LET s1 == [s EXCEPT !.data = f.data, !.error = Err("null")]
       IN IF f.hasHist THEN [s1 EXCEPT !.signalHistory = f.hist] ELSE s1
  ELSE IF f.type = "signal_history" /\ f.hasData
  THEN [s EXCEPT !.signalHistory = f.hist]
  ELSE s

onerror(s, ws) == s

\* Faulty variant of Intentional: the reason is not compared.
IntentionalAnyReason(code, reason) == code = CLEANUP_CODE

\* event.code === 1000 && event.reason === "Client cleanup"
Intentional(code, reason) == code = CLEANUP_CODE /\ reason = "Client cleanup"

\* onclose once the identity check has passed.
oncloseCurrent(s, code, reason, jQ) ==
  LET s1 == clearTimers([s EXCEPT !.connectionStateRef = "disconnected",
                                  !.isConnected = FALSE])
  IN IF s1.isCleaningUpRef \/ ~s1.isMountedRef THEN s1
     ELSE IF Intentional(code, reason) THEN s1
     ELSE scheduleReconnect([s1 EXCEPT !.error = Err("Connection lost")], jQ)

onclose(s, ws, code, reason, jQ) ==
  IF ws # s.wsRef THEN s ELSE oncloseCurrent(s, code, reason, jQ)

\* Faulty variant of reconnect: the attempt counter is not reset.
reconnectKeepsAttempts(s) ==
  [cleanup(s, TRUE) EXCEPT !.graceTimers = @ + 1]

reconnect(s) ==
  [cleanup([s EXCEPT !.reconnectAttemptsRef = 0], TRUE) EXCEPT
     !.graceTimers = @ + 1]

\* ------------------------------------------------- effects and timers

\* Faulty variant of mountEffect: connect() is called at once as well.
mountEffectConnectsAtOnce(s) ==
  connect([s EXCEPT !.isMountedRef = TRUE, !.connectTimeout = TRUE,
                    !.listening = TRUE], FALSE, 0)

\* The lifecycle effect (and, with it, the two listener effects) being set up.
mountEffect(s) ==
  [s EXCEPT !.isMountedRef = TRUE, !.connectTimeout = TRUE,
            !.listening = TRUE]

\* Faulty variant of unmountEffect: isMountedRef is left true.
unmountEffectStaysMounted(s) ==
  [cleanup([s EXCEPT !.connectTimeout = FALSE], TRUE)
     EXCEPT !.listening = FALSE]

\* The effects' cleanup: clearTimeout(connectTimeout), isMountedRef = false,
\* cleanup(true); the listeners are removed.
unmountEffect(s) ==
  [cleanup([s EXCEPT !.connectTimeout = FALSE, !.isMountedRef = FALSE], TRUE)
     EXCEPT !.listening = FALSE]

\* The callback of the 50 ms timer of the lifecycle effect.
onConnectTimeout(s, throws, jQ) ==
  LET s0 == [s EXCEPT !.connectTimeout = FALSE]
  IN IF s0.isMountedRef THEN connect(s0, throws, jQ) ELSE s0

\* Faulty variant of onReconnectTimeout: the timer fires without connecting.
onReconnectTimeoutIdle(s, throws, jQ) ==
  [s EXCEPT !.reconnectTimeoutRef = "null", !.reconnectTimers = @ - 1]

\* The callback of the reconnect timer.
onReconnectTimeout(s, throws, jQ) ==
  LET s0 == [s EXCEPT !.reconnectTimeoutRef = "null",
                      !.reconnectTimers = @ - 1]
  IN IF s0.isMountedRef /\ ~s0.isCleaningUpRef
     THEN connect(s0, throws, jQ)
     ELSE s0

\* The callback of the 100 ms timer of reconnect().
onGraceTimeout(s, throws, jQ) ==
  LET s0 == [s EXCEPT !.graceTimers = @ - 1]
  IN IF s0.isMountedRef THEN connect(s0, throws, jQ) ELSE s0

\* Faulty variant of onPingInterval: a tick that finds the previous ping
\* unanswered closes the socket.
onPingIntervalEnforcesPong(s) ==
  IF s.wsRef # 0 /\ s.ready[s.wsRef] = "OPEN"
  THEN IF s.lastPingWs = s.wsRef
       THEN Close(s, s.wsRef)
       ELSE [s EXCEPT !.lastPingWs = s.wsRef]
  ELSE s

\* The callback of the ping interval.
onPingInterval(s) ==
  IF s.wsRef # 0 /\ s.ready[s.wsRef] = "OPEN"
  THEN [s EXCEPT !.lastPingWs = s.wsRef]
  ELSE s

\* Faulty variant of handleVisibilityChange: the attempt counter is kept.
handleVisibilityChangeKeepsAttempts(s, visible, throws, jQ) ==
  IF visible /\ s.isMountedRef
  THEN IF s.wsRef = 0 \/ s.ready[s.wsRef] # "OPEN"
       THEN connect(s, throws, jQ)
       ELSE s
  ELSE s

handleVisibilityChange(s, visible, throws, jQ) ==
  IF visible /\ s.isMountedRef
  THEN IF s.wsRef = 0 \/ s.ready[s.wsRef] # "OPEN"
       THEN connect([s EXCEPT !.reconnectAttemptsRef = 0], throws, jQ)
       ELSE s
  ELSE s

handleOnline(s, throws, jQ) ==
  IF s.isMountedRef
  THEN connect([s EXCEPT !.reconnectAttemptsRef = 0], throws, jQ)
  ELSE s

handleOffline(s) ==
  [s EXCEPT !.error = Err("Network offline"), !.isConnected = FALSE]

\* ------------------------------------------- the transport's events

\* The task that opens ws: readyState becomes OPEN and the open event is
\* dispatched to onopen if the slot is set.
fireOpen(s, ws) ==
  LET s0 == [s EXCEPT !.ready[ws] = "OPEN"]
  IN IF s0.handlers[ws] THEN onopen(s0, ws) ELSE s0

\* Faulty variant of fireClose: the close event of any socket reaches the body of
\* onclose (the slot is never cleared and the identity is not compared).
fireCloseUnfiltered(s, ws, code, reason, jQ) ==
  oncloseCurrent([s EXCEPT !.ready[ws] = "CLOSED"], code, reason, jQ)

\* The task that closes ws: readyState becomes CLOSED, then the error event
\* (an unclean closure) and the close event are dispatched to the slots set.
fireClose(s, ws, code, reason, jQ) ==
  LET s0 == [s EXCEPT !.ready[ws] = "CLOSED"]
  IN IF s0.handlers[ws]
     THEN onclose(onerror(s0, ws), ws, code, reason, jQ)
     ELSE s0

fireMessage(s, ws, f) ==
  IF s.handlers[ws] THEN onmessage(s, ws, f) ELSE s

\* The page load with anything at all in localStorage.
InitRestore ==
  /\ InitHook
  /\ InitApp
  /\ authState = AuthInitial
  /\ stored \in StoredContents
  /\ authPhase = "restoring"

\* ------------------------------------------- the authentication gate

\* Faulty variant of AppRendered: App is rendered as soon as loading is over.
AppRenderedOnceLoaded(a) == ~a.isLoading

\* AuthenticatedApp renders App (and with it the hook) only past both tests.
AppRendered(a) == ~a.isLoading /\ a.isAuthenticated

\* AuthenticatedApp renders Login.
LoginRendered(a) == ~a.isLoading /\ ~a.isAuthenticated

\* The effect that checks for an existing session.
restoreSession(a, st) ==
  IF /\ st # "none"
     /\ Parsed(st).ok
     /\ ~isExpired(Parsed(st))
     /\ Parsed(st).hasAddress
  THEN AuthSet(TRUE)
  ELSE [a EXCEPT !.isLoading = FALSE]

\* localStorage after that effect: unparsable text is removed.
restoreStorage(st) == IF st = "corrupt" THEN "none" ELSE st

\* AuthProvider's connect() up to its first await.
authConnect(a) == [a EXCEPT !.isLoading = TRUE, !.error = "null"]

\* Faulty variant of authConnectDone: a failure leaves the loading state on.
authConnectDoneKeepsLoading(a, outcome) ==
  IF outcome = "ok"
  THEN AuthSet(TRUE)
  ELSE [a EXCEPT !.error = "message"]

\* AuthProvider's connect() once the wallet and the server have answered:
\* the try block ran to its end, or a step threw and the catch block ran.
authConnectDone(a, outcome) ==
  IF outcome = "ok"
  THEN AuthSet(TRUE)
  ELSE [a EXCEPT !.isLoading = FALSE, !.error = "message"]

\* localStorage after connect(): setItem is the last thing that can throw.
authConnectStorage(st, outcome) == IF outcome = "ok" THEN "valid" ELSE st

\* AuthProvider's disconnect().
authDisconnect(a) == AuthSet(FALSE)

\* A new instance of the hook: refs and React state as constructed. The
\* sockets of an earlier instance live on until they close; its untracked
\* grace timers see its own isMountedRef, false for ever, and do nothing.
freshInstance(s) ==
  [s EXCEPT !.wsRef = 0, !.reconnectTimeoutRef = "null",
            !.reconnectTimers = 0, !.connectionTimers = 0,
            !.connectionTimeoutRef = "null", !.connectionTimeoutWs = 0,
            !.pingIntervalRef = "null", !.reconnectAttemptsRef = 0,
            !.isMountedRef = FALSE, !.isCleaningUpRef = FALSE,
            !.connectionStateRef = "disconnected", !.data = 0,
            !.isConnected = FALSE, !.error = Err("null"),
            !.signalHistory = <<>>, !.delay = 0, !.connectTimeout = FALSE,
            !.graceTimers = 0, !.listening = FALSE]

\* The commit of AuthenticatedApp after the gate's state went from old to
\* new: App is mounted (its effects run) or unmounted (their cleanups run).
render(s, old, new) ==
  IF AppRendered(new) /\ ~AppRendered(old)
  THEN mountEffect(freshInstance(s))
  ELSE IF ~AppRendered(new) /\ AppRendered(old) /\ s.listening
  THEN unmountEffect(s)
  ELSE s

\* ---------------------------------------------------------- actions

\* The effects run (again, in StrictMode) while App is rendered.
Mount == ~listening /\ AppRendered(authState) /\ Set(mountEffect(St))

Unmount == listening /\ Set(unmountEffect(St))

ConnectTimeoutFires ==
  /\ connectTimeout
  /\ \E throws \in BOOLEAN, jQ \in JitterQ :
       Set(onConnectTimeout(St, throws, jQ))

ReconnectTimeoutFires ==
  /\ reconnectTimeoutRef = "pending"
  /\ \E throws \in BOOLEAN, jQ \in JitterQ :
       Set(onReconnectTimeout(St, throws, jQ))

ConnectionTimeoutFires ==
  /\ connectionTimeoutRef = "pending"
  /\ \E jQ \in JitterQ : Set(onConnectionTimeout(St, connectionTimeoutWs, jQ))

GraceTimeoutFires ==
  /\ graceTimers > 0
  /\ \E throws \in BOOLEAN, jQ \in JitterQ :
       Set(onGraceTimeout(St, throws, jQ))

PingIntervalFires == pingIntervalRef = "pending" /\ Set(onPingInterval(St))

Reconnect == listening /\ Set(reconnect(St))

VisibilityChange ==
  /\ listening
  /\ \E visible \in BOOLEAN, throws \in BOOLEAN, jQ \in JitterQ :
       Set(handleVisibilityChange(St, visible, throws, jQ))

Online ==
  /\ listening
  /\ \E throws \in BOOLEAN, jQ \in JitterQ : Set(handleOnline(St, throws, jQ))

Offline == listening /\ Set(handleOffline(St))

CloseEvents(readyState) ==
  IF readyState = "OPEN"
  THEN CloseCodes \X CloseReasons
  ELSE {<<1006, "">>}

TransportOpen(ws) == ready[ws] = "CONNECTING" /\ Set(fireOpen(St, ws))

\* A socket that never opened, or that the client closed while connecting,
\* closes with 1006 and no reason; an open one with whatever the peer sends.
TransportClose(ws) ==
  /\ ready[ws] \in {"CONNECTING", "OPEN", "CLOSING"}
  /\ \E ev \in CloseEvents(ready[ws]), jQ \in JitterQ :
       Set(fireClose(St, ws, ev[1], ev[2], jQ))

TransportMessage(ws) ==
  /\ ready[ws] = "OPEN"
  /\ \E f \in Frames : Set(fireMessage(St, ws, f))

TransportEvent(ws) ==
  TransportOpen(ws) \/ TransportClose(ws) \/ TransportMessage(ws)

Next ==
  \/ Mount
  \/ Unmount
  \/ ConnectTimeoutFires
  \/ ReconnectTimeoutFires
  \/ ConnectionTimeoutFires
  \/ GraceTimeoutFires
  \/ PingIntervalFires
  \/ Reconnect
  \/ VisibilityChange
  \/ Online
  \/ Offline
  \/ \E ws \in Sockets : TransportOpen(ws)
  \/ \E ws \in Sockets : TransportClose(ws)
  \/ \E ws \in Sockets : TransportMessage(ws)

Spec == Init /\ [][Next]_vars

\* A change of the gate's state and the commit that follows it.
SetAuth(new, st, phase) ==
  /\ SetHook(render(St, authState, new), MaxAttempts)
  /\ authState' = new
  /\ stored' = st
  /\ authPhase' = phase

RestoreSession ==
  /\ authPhase = "restoring"
  /\ SetAuth(restoreSession(authState, stored), restoreStorage(stored), "idle")

WalletConnect ==
  /\ authPhase = "idle"
  /\ LoginRendered(authState)
  /\ SetAuth(authConnect(authState), stored, "connecting")

WalletConnectDone ==
  /\ authPhase = "connecting"
  /\ \E outcome \in LoginOutcomes :
       SetAuth(authConnectDone(authState, outcome),
               authConnectStorage(stored, outcome), "idle")

WalletDisconnect ==
  /\ authPhase = "idle"
  /\ AppRendered(authState)
  /\ SetAuth(authDisconnect(authState), "none", "idle")

\* The hook behind the authentication gate, from the page load.
NextAuth ==
  \/ Next
  \/ RestoreSession
  \/ WalletConnect
  \/ WalletConnectDone
  \/ WalletDisconnect

SpecAuth == InitAuth /\ [][NextAuth]_vars

SpecRestore == InitRestore /\ [][NextAuth]_vars

\* The close event of a socket the client has closed always arrives.
ClosingCompletes(ws) == ready[ws] = "CLOSING" /\ TransportClose(ws)

\* Every armed timer fires, a reachable server opens a connecting socket
\* unless it closes first, and a closing socket closes. Nothing forces the
\* user, the browser's triggers, the unmount or the peer's frames and closes.
Fairness ==
  /\ WF_vars(ConnectTimeoutFires)
  /\ WF_vars(ReconnectTimeoutFires)
  /\ WF_vars(ConnectionTimeoutFires)
  /\ WF_vars(GraceTimeoutFires)
  /\ WF_vars(PingIntervalFires)
  /\ \A ws \in Sockets : WF_vars(TransportOpen(ws))
  /\ \A ws \in Sockets : WF_vars(ClosingCompletes(ws))

SpecFair == Spec /\ Fairness

\* A history list one record longer than the maximum the page announces.
LongHistory == [i \in 1..(MAX_SIGNALS + 1) |-> 1]

\* The frames that carry it: a signal_history frame and a market_data frame.
LongFrames ==
  {Frame(TRUE, "signal_history", 0, TRUE, LongHistory, FALSE)}
  \cup {Frame(TRUE, "market_data", d, TRUE, LongHistory, TRUE) : d \in Payloads}

TransportLongMessage(ws) ==
  /\ ready[ws] = "OPEN"
  /\ \E f \in LongFrames : Set(fireMessage(St, ws, f))

\* The hook with a peer that also sends history lists of any length.
NextHistory ==
  \/ Next
  \/ \E ws \in Sockets : TransportLongMessage(ws)

SpecHistory == Init /\ [][NextHistory]_vars

\* The server accepts the current attempt.
AcceptCurrent == wsRef # 0 /\ TransportOpen(wsRef)

\* A timer callback whose connect() constructs the socket without throwing.
TimerConstructs ==
  /\ ConnectTimeoutFires \/ ReconnectTimeoutFires \/ GraceTimeoutFires
  /\ \E ws \in Sockets : ready[ws] # "CONNECTING" /\ ready'[ws] = "CONNECTING"

\* The connection of a hook that stays mounted: no unmount, and no frame,
\* ping or offline event, none of which touches a socket, a ref or a timer.
NextConnection ==
  \/ Mount
  \/ ConnectTimeoutFires
  \/ ReconnectTimeoutFires
  \/ ConnectionTimeoutFires
  \/ GraceTimeoutFires
  \/ Reconnect
  \/ VisibilityChange
  \/ Online
  \/ \E ws \in Sockets : TransportOpen(ws)
  \/ \E ws \in Sockets : TransportClose(ws)

\* Every armed timer fires and a closing socket closes; the server eventually
\* accepts: the constructor does not throw for ever and, of the attempts the
\* hook keeps making, one is accepted. Nothing forces the user or the
\* browser's triggers.
FairnessAccepting ==
  /\ WF_vars(ConnectTimeoutFires)
  /\ WF_vars(ReconnectTimeoutFires)
  /\ WF_vars(ConnectionTimeoutFires)
  /\ WF_vars(GraceTimeoutFires)
  /\ \A ws \in Sockets : WF_vars(ClosingCompletes(ws))
  /\ SF_vars(TimerConstructs)
  /\ SF_vars(AcceptCurrent)

SpecAccepting == Init /\ [][NextConnection]_vars /\ FairnessAccepting

\* The failure / retry cycle alone (no unmount, manual reconnect, trigger or
\* message), with the longer bound MaxStreak on the attempt counter.
StreakMount == ~listening /\ SetWithin(mountEffect(St), MaxStreak)

StreakConnectTimeoutFires ==
  /\ connectTimeout
  /\ \E throws \in BOOLEAN, jQ \in JitterQ :
       SetWithin(onConnectTimeout(St, throws, jQ), MaxStreak)

StreakReconnectTimeoutFires ==
  /\ reconnectTimeoutRef = "pending"
  /\ \E throws \in BOOLEAN, jQ \in JitterQ :
       SetWithin(onReconnectTimeout(St, throws, jQ), MaxStreak)

StreakConnectionTimeoutFires ==
  /\ connectionTimeoutRef = "pending"
  /\ \E jQ \in JitterQ :
       SetWithin(onConnectionTimeout(St, connectionTimeoutWs, jQ), MaxStreak)

StreakOpen(ws) ==
  ready[ws] = "CONNECTING" /\ SetWithin(fireOpen(St, ws), MaxStreak)

StreakClose(ws) ==
  /\ ready[ws] \in {"CONNECTING", "OPEN", "CLOSING"}
  /\ \E ev \in CloseEvents(ready[ws]), jQ \in JitterQ :
       SetWithin(fireClose(St, ws, ev[1], ev[2], jQ), MaxStreak)

NextBackoff ==
  \/ StreakMount
  \/ StreakConnectTimeoutFires
  \/ StreakReconnectTimeoutFires
  \/ StreakConnectionTimeoutFires
  \/ \E ws \in Sockets : StreakOpen(ws)
  \/ \E ws \in Sockets : StreakClose(ws)

SpecBackoff == Init /\ [][NextBackoff]_vars

\* The connection of a mounted hook (no unmount, frame, ping or offline
\* event) with up to MaxBurst calls of reconnect() whose grace timers are
\* pending together.
SetBurst(r0) == SetBounded(r0, MaxAttempts, MaxBurst) /\ UNCHANGED authVars

BurstMount == ~listening /\ AppRendered(authState) /\ SetBurst(mountEffect(St))

BurstReconnect == listening /\ SetBurst(reconnect(St))

BurstConnectTimeoutFires ==
  /\ connectTimeout
  /\ \E throws \in BOOLEAN, jQ \in JitterQ :
       SetBurst(onConnectTimeout(St, throws, jQ))

BurstReconnectTimeoutFires ==
  /\ reconnectTimeoutRef = "pending"
  /\ \E throws \in BOOLEAN, jQ \in JitterQ :
       SetBurst(onReconnectTimeout(St, throws, jQ))

BurstConnectionTimeoutFires ==
  /\ connectionTimeoutRef = "pending"
  /\ \E jQ \in JitterQ :
       SetBurst(onConnectionTimeout(St, connectionTimeoutWs, jQ))

BurstGraceTimeoutFires ==
  /\ graceTimers > 0
  /\ \E throws \in BOOLEAN, jQ \in JitterQ :
       SetBurst(onGraceTimeout(St, throws, jQ))

BurstVisibilityChange ==
  /\ listening
  /\ \E visible \in BOOLEAN, throws \in BOOLEAN, jQ \in JitterQ :
       SetBurst(handleVisibilityChange(St, visible, throws, jQ))

BurstOnline ==
  /\ listening
  /\ \E throws \in BOOLEAN, jQ \in JitterQ :
       SetBurst(handleOnline(St, throws, jQ))

BurstOpen(ws) == ready[ws] = "CONNECTING" /\ SetBurst(fireOpen(St, ws))

BurstClose(ws) ==
  /\ ready[ws] \in {"CONNECTING", "OPEN", "CLOSING"}
  /\ \E ev \in CloseEvents(ready[ws]), jQ \in JitterQ :
       SetBurst(fireClose(St, ws, ev[1], ev[2], jQ))

NextBurst ==
  \/ BurstMount
  \/ BurstReconnect
  \/ BurstConnectTimeoutFires
  \/ BurstReconnectTimeoutFires
  \/ BurstConnectionTimeoutFires
  \/ BurstGraceTimeoutFires
  \/ BurstVisibilityChange
  \/ BurstOnline
  \/ \E ws \in Sockets : BurstOpen(ws)
  \/ \E ws \in Sockets : BurstClose(ws)

SpecBurst == Init /\ [][NextBurst]_vars

\* StrictMode's mount, unmount, mount: the effects' cleanup runs before the
\* 50 ms timer of the mount has fired, and no visibilitychange or online
\* event is delivered. A grace timer of reconnect() takes 100 ms, so it does
\* not fire while the 50 ms timer of that mount or of the next is pending.
EarlyUnmount == connectTimeout /\ Unmount

LateGraceTimeoutFires == ~connectTimeout /\ GraceTimeoutFires

NextStrictMode ==
  \/ Mount
  \/ EarlyUnmount
  \/ ConnectTimeoutFires
  \/ ReconnectTimeoutFires
  \/ ConnectionTimeoutFires
  \/ LateGraceTimeoutFires
  \/ PingIntervalFires
  \/ Reconnect
  \/ Offline
  \/ \E ws \in Sockets : TransportOpen(ws)
  \/ \E ws \in Sockets : TransportClose(ws)
  \/ \E ws \in Sockets : TransportMessage(ws)

SpecStrictMode == Init /\ [][NextStrictMode]_vars

\* ------------------------------------------- App's trade history

\* latest.trading_signal: missing ("none"), HOLD or a trade.
Signals == {"none", "HOLD", "BUY", "SELL"}

\* new Date().toLocaleTimeString("en-US", {hour12: false}) at second t: the
\* time of day, without the date.
TimeString(t) == t % SECONDS_PER_DAY

\* array.slice(0, n)
Slice(s, n) == SubSeq(s, 1, Min(Len(s), n))

\* A trade entry: at is the second it was added (not a field of TradeEntry:
\* kept to tell the entries' order).
TradeEntry(signal, t) ==
  [timestamp |-> TimeString(t), signal |-> signal, at |-> t]

\* Faulty variant of trackTrade: the list is never cut.
trackTradeKeepsAll(prev, signal, t) ==
  IF signal \in {"none", "HOLD"} THEN prev
  ELSE IF Len(prev) = 0 \/ prev[1].timestamp # TimeString(t)
  THEN <<TradeEntry(signal, t)>> \o prev
  ELSE prev

\* The part of the effect on latest that tracks trade signals, with the
\* updater it passes to setTradeHistory.
trackTrade(prev, signal, t) ==
  IF signal \in {"none", "HOLD"} THEN prev
  ELSE IF Len(prev) = 0 \/ prev[1].timestamp # TimeString(t)
  THEN Slice(<<TradeEntry(signal, t)>> \o prev, MAX_TRADES)
  ELSE prev

\* The history after k trades, one a second, the last one a second ago.
StreakOfTrades(k) == [i \in 1..k |-> TradeEntry("BUY", MAX_TRADES - i)]

\* App after up to MAX_TRADES such trades, MAX_TRADES seconds after the page
\* load.
InitTrades ==
  /\ InitHook
  /\ authState = AuthSet(TRUE)
  /\ stored = "valid"
  /\ authPhase = "idle"
  /\ tradeHistory \in {StreakOfTrades(k) : k \in 0..MAX_TRADES}
  /\ now = MAX_TRADES

\* The steps of the clock since then: seconds and whole days.
Ticks(t) ==
  ((t - MAX_TRADES) \div SECONDS_PER_DAY) + ((t - MAX_TRADES) % SECONDS_PER_DAY)

\* A new snapshot has been rendered and the effect on latest runs.
TradeSnapshot ==
  /\ \E signal \in Signals :
       tradeHistory' = trackTrade(tradeHistory, signal, now)
  /\ UNCHANGED <<now, hookVars, authVars>>

\* Time passes: a second, or a day.
Tick ==
  /\ Ticks(now) < MaxTicks
  /\ \E d \in {1, SECONDS_PER_DAY} : now' = now + d
  /\ UNCHANGED <<tradeHistory, hookVars, authVars>>

NextTrades == TradeSnapshot \/ Tick

SpecTrades == InitTrades /\ [][NextTrades]_vars

TypeOK ==
  /\ wsRef \in Sockets \cup {0}
  /\ wsRef # 0 => ready[wsRef] # "NONE"
  /\ connectionTimeoutWs # 0 => ready[connectionTimeoutWs] # "NONE"
  /\ lastPingWs # 0 => ready[lastPingWs] # "NONE"
  /\ \A ws \in Sockets : handlers[ws] => ready[ws] # "NONE"
  /\ ~isCleaningUpRef
  /\ reconnectTimers \in Nat
  /\ connectionTimers \in Nat
  /\ authState \in AuthStates
  /\ stored \in StoredContents
  /\ authPhase \in {"restoring", "idle", "connecting"}
  /\ now \in Nat
  /\ \A i \in 1..Len(tradeHistory) :
       /\ tradeHistory[i].signal \in Signals
       /\ tradeHistory[i].timestamp = TimeString(tradeHistory[i].at)

\* ------------------------------------------------------------ properties

OpenSockets == {ws \in Sockets : ready[ws] = "OPEN"}

\* What the hook holds besides the sockets themselves: refs, timers and the
\* React state it emits.
sessionVars ==
  <<wsRef, reconnectTimeoutRef, connectionTimeoutRef, connectionTimeoutWs,
    pingIntervalRef, reconnectAttemptsRef, isMountedRef, isCleaningUpRef,
    connectionStateRef, data, isConnected, error, signalHistory, delay,
    connectTimeout, graceTimers, listening>>

\* The same without the grace timers.
sessionVarsButGrace ==
  <<wsRef, reconnectTimeoutRef, connectionTimeoutRef, connectionTimeoutWs,
    pingIntervalRef, reconnectAttemptsRef, isMountedRef, isCleaningUpRef,
    connectionStateRef, data, isConnected, error, signalHistory, delay,
    connectTimeout, listening>>

\* A step in which a WebSocket is constructed.
SocketCreated ==
  \E ws \in Sockets : ready'[ws] = "CONNECTING" /\ ready[ws] # "CONNECTING"

\* A step in which scheduleReconnect arms a timer.
ReconnectScheduled ==
  /\ reconnectTimeoutRef' = "pending"
  /\ reconnectAttemptsRef' = reconnectAttemptsRef + 1

\* C1: at most one socket created by the hook is OPEN in any reachable state.
C1_AtMostOneOpen == Cardinality(OpenSockets) <= 1

\* C1 witness: the current socket is OPEN while an earlier socket of the hook
\* is still closing.
C1_Witness ==
  /\ wsRef # 0
  /\ ready[wsRef] = "OPEN"
  /\ \E ws \in Sockets : ws # wsRef /\ ready[ws] = "CLOSING"

\* C2: an open, message, error or close event of a socket that is not
\* wsRef.current changes no ref, no timer and no emitted state.
C2_StaleEventImmunity ==
  [][\A ws \in Sockets :
       (ws # wsRef /\ TransportEvent(ws)) => UNCHANGED sessionVars]_vars

\* C2 witness: a superseded socket still has its close event to deliver while
\* the current socket is open and has delivered data.
C2_Witness ==
  /\ wsRef # 0
  /\ ready[wsRef] = "OPEN"
  /\ connectionStateRef = "connected"
  /\ data # 0
  /\ \E ws \in Sockets : ws # wsRef /\ ready[ws] = "CLOSING"

\* C3: while the effects are cleaned up (after unmount, before a later mount)
\* no reconnect or connection timer is pending, and no step constructs a
\* WebSocket, arms a timer or changes the attempt counter.
C3_NoReconnectAfterStop ==
  /\ [](~listening =>
          reconnectTimeoutRef = "null" /\ connectionTimeoutRef = "null")
  /\ [][(~listening /\ ~listening') =>
          /\ ~SocketCreated
          /\ reconnectAttemptsRef' = reconnectAttemptsRef
          /\ wsRef' = 0]_vars

\* C3 witness: the hook is unmounted while a grace timer of reconnect() is
\* still pending and a socket it closed has its close event to deliver.
C3_Witness ==
  /\ ~listening
  /\ graceTimers > 0
  /\ \E ws \in Sockets : ready[ws] = "CLOSING"

\* C4 (as claimed): once the effects are cleaned up every timer the hook armed
\* is cancelled, the handlers are detached and wsRef.current is null.
C4_StopCancelsEveryTimer ==
  ~listening =>
    /\ reconnectTimeoutRef = "null"
    /\ connectionTimeoutRef = "null"
    /\ pingIntervalRef = "null"
    /\ ~connectTimeout
    /\ graceTimers = 0
    /\ wsRef = 0
    /\ \A ws \in Sockets : ~handlers[ws]

\* C5 (as claimed): the close event that follows the timeout handler's own
\* close() of the current socket does not count the failure a second time.
C5_FailureCountedOnce ==
  [][\A ws \in Sockets :
       (ws = wsRef /\ ready[ws] = "CLOSING" /\ TransportClose(ws)) =>
         reconnectAttemptsRef' = reconnectAttemptsRef]_vars

\* C6: reconnectAttemptsRef is 0 whenever the connection state is connected
\* (or the current socket is OPEN); every step into connected sets it to 0, and
\* the first scheduling after connected uses attempt 1, a delay in
\* [2000, 3000) ms.
C6_ResetOnOpen ==
  /\ []((connectionStateRef = "connected"
          \/ (wsRef # 0 /\ ready[wsRef] = "OPEN"))
        => reconnectAttemptsRef = 0)
  /\ [][(connectionStateRef = "connected"
          /\ reconnectAttemptsRef' # reconnectAttemptsRef) =>
          /\ reconnectAttemptsRef' = 1
          /\ reconnectTimeoutRef' = "pending"
          /\ delay' >= RECONNECT_DELAY
          /\ delay' < RECONNECT_DELAY + JITTER_MAX]_vars

\* C6 witness: a socket that had opened and delivered data was lost and the
\* retry is scheduled with attempt 1.
C6_Witness ==
  /\ data # 0
  /\ wsRef # 0
  /\ ready[wsRef] = "CLOSED"
  /\ reconnectTimeoutRef = "pending"
  /\ reconnectAttemptsRef = 1

\* C7: in a streak of failures (the counter goes from n >= 1 to n + 1) the
\* base delay does not decrease and never exceeds MAX_RECONNECT_DELAY; the
\* counter only ever changes by +1 or to 0.
C7_BackoffMonotone ==
  [][/\ reconnectAttemptsRef' \in
          {reconnectAttemptsRef, reconnectAttemptsRef + 1, 0}
     /\ (reconnectAttemptsRef >= 1
          /\ reconnectAttemptsRef' = reconnectAttemptsRef + 1) =>
          /\ BaseDelayQ(reconnectAttemptsRef') >=
               BaseDelayQ(reconnectAttemptsRef)
          /\ BaseDelayQ(reconnectAttemptsRef') <= 4 * MAX_RECONNECT_DELAY
          /\ 4 * delay' < 4 * (MAX_RECONNECT_DELAY + JITTER_MAX)]_vars

\* C7 witness: the streak has reached the cap of 30000 ms.
C7_Witness ==
  /\ reconnectTimeoutRef = "pending"
  /\ reconnectAttemptsRef >= 8
  /\ delay >= MAX_RECONNECT_DELAY

\* min(2000 * 1.5^(n-1), 30000) for n = 1, 2, ..., in quarter milliseconds:
\* 2000, 3000, 4500, 6750, 10125, 15187.5, 22781.25, 30000, ...
ClaimedBaseQ ==
  <<8000, 12000, 18000, 27000, 40500, 60750, 91125, 120000, 120000, 120000,
    120000, 120000>>

\* C8 (as claimed): min(2000*1.5^(n-1), 30000) <= delay
\* < min(2000*1.5^(n-1), 30000) + 1000 for the pending timer's delay.
C8_DelayAtLeastBase ==
  reconnectTimeoutRef = "pending" =>
    /\ reconnectAttemptsRef >= 1
    /\ ClaimedBaseQ[reconnectAttemptsRef] <= 4 * delay
    /\ 4 * delay < ClaimedBaseQ[reconnectAttemptsRef] + 4 * JITTER_MAX

\* C8 (amended): floor(min(2000*1.5^(n-1), 30000)) <= delay
\* < min(2000*1.5^(n-1), 30000) + 1000 for the pending timer's delay, n being
\* the attempt counter after the increment.
C8_DelayBounds ==
  reconnectTimeoutRef = "pending" =>
    /\ reconnectAttemptsRef >= 1
    /\ ClaimedBaseQ[reconnectAttemptsRef] \div 4 <= delay
    /\ 4 * delay < ClaimedBaseQ[reconnectAttemptsRef] + 4 * JITTER_MAX

\* C8 witness: a timer is pending for attempt 6, whose base delay 15187.5 ms
\* is not a whole number of milliseconds.
C8_Witness ==
  /\ reconnectTimeoutRef = "pending"
  /\ reconnectAttemptsRef = 6
  /\ delay = 15187

\* C9: when the close event of the current socket reaches onclose while the
\* hook is mounted, the state becomes disconnected, isConnected false, every
\* tracked timer of before is cleared, and a reconnect is scheduled if and only
\* if the event is not (1000, "Client cleanup").
C9_CloseSemantics ==
  [][(/\ wsRef # 0
      /\ handlers[wsRef]
      /\ isMountedRef
      /\ ready[wsRef] # "CLOSED"
      /\ ready'[wsRef] = "CLOSED") =>
       \A ev \in CloseEvents(ready[wsRef]) :
        \A jQ \in JitterQ :
         Set(fireClose(St, wsRef, ev[1], ev[2], jQ)) =>
          /\ connectionStateRef' = "disconnected"
          /\ ~isConnected'
          /\ pingIntervalRef' = "null"
          /\ connectionTimeoutRef' = "null"
          /\ ReconnectScheduled <=> ~(ev[1] = 1000 /\ ev[2] = "Client cleanup")
          /\ reconnectTimeoutRef' = "pending" <=>
               ~(ev[1] = 1000 /\ ev[2] = "Client cleanup")]_vars

\* C9 witness: the current socket was closed with (1000, "Client cleanup")
\* while mounted: it is CLOSED, still attached, and nothing is scheduled.
C9_Witness ==
  /\ isMountedRef
  /\ wsRef # 0
  /\ ready[wsRef] = "CLOSED"
  /\ handlers[wsRef]
  /\ reconnectTimeoutRef = "null"
  /\ graceTimers = 0
  /\ ~connectTimeout

\* C10: the connection timeout is pending only for the current socket while
\* it is CONNECTING, never once the state is connected; when it fires the
\* socket is closed, the state becomes disconnected, isConnected false and a
\* reconnect is scheduled, and no OPEN socket is closed by it.
C10_ConnectionTimeout ==
  /\ [](connectionTimeoutRef = "pending" =>
          /\ connectionTimeoutWs = wsRef
          /\ wsRef # 0
          /\ ready[wsRef] = "CONNECTING"
          /\ connectionStateRef = "connecting")
  /\ [][ConnectionTimeoutFires =>
          /\ ready'[wsRef] = "CLOSING"
          /\ wsRef' = wsRef
          /\ connectionStateRef' = "disconnected"
          /\ ~isConnected'
          /\ error'.kind = "Reconnecting"
          /\ ReconnectScheduled
          /\ \A ws \in Sockets : ready[ws] = "OPEN" => ready'[ws] = "OPEN"]_vars

\* C10 witness: the connection timeout has fired: the current socket is
\* closing, its close event is still to come and the retry is scheduled.
C10_Witness ==
  /\ wsRef # 0
  /\ ready[wsRef] = "CLOSING"
  /\ handlers[wsRef]
  /\ connectionStateRef = "disconnected"
  /\ reconnectTimeoutRef = "pending"

\* The sockets that are CONNECTING or OPEN.
LiveSockets == {ws \in Sockets : ready[ws] \in {"CONNECTING", "OPEN"}}

\* A step of reconnect(): only it arms a grace timer.
ReconnectStep == graceTimers' = graceTimers + 1

\* A step of the grace timer's callback: only it consumes a grace timer.
GraceStep == graceTimers' = graceTimers - 1

\* The step ended in the catch branch of connect(): no socket, retry armed.
ConstructorThrew ==
  /\ wsRef' = 0
  /\ reconnectTimeoutRef' = "pending"
  /\ error'.kind = "Reconnecting"

\* C11 (as claimed): every firing of the grace timer while mounted starts a
\* new attempt (the case of a throwing constructor set aside).
C11_GraceAlwaysStartsAttempt ==
  [][(GraceStep /\ isMountedRef) => (SocketCreated \/ ConstructorThrew)]_vars

\* C11 (amended): reconnect() in any state resets the counter, detaches and
\* closes the current socket, clears every tracked timer, schedules nothing
\* and constructs nothing; the close event of the socket it dropped schedules
\* nothing; when the grace timer fires while mounted, the attempt in flight is
\* kept if there is one, otherwise exactly one socket is constructed at once
\* (whatever backoff timer was pending, which is cleared), or the constructor
\* throws and a retry is scheduled.
C11_ForceReconnect ==
  /\ [][ReconnectStep =>
          /\ reconnectAttemptsRef' = 0
          /\ wsRef' = 0
          /\ connectionStateRef' = "disconnected"
          /\ reconnectTimeoutRef' = "null"
          /\ connectionTimeoutRef' = "null"
          /\ pingIntervalRef' = "null"
          /\ ~SocketCreated
          /\ wsRef # 0 =>
               /\ ~handlers'[wsRef]
               /\ ready'[wsRef] \in {"CLOSING", "NONE"}]_vars
  /\ [][\A ws \in Sockets :
          (ws # wsRef /\ ready[ws] = "CLOSING" /\ ready'[ws] = "NONE") =>
            /\ reconnectTimeoutRef' = reconnectTimeoutRef
            /\ reconnectAttemptsRef' = reconnectAttemptsRef]_vars
  /\ [][(GraceStep /\ isMountedRef) =>
          IF wsRef # 0 /\ ready[wsRef] \in {"CONNECTING", "OPEN"}
          THEN /\ ~SocketCreated
               /\ UNCHANGED <<ready, handlers, sessionVarsButGrace>>
          ELSE \/ ConstructorThrew /\ ~SocketCreated
               \/ /\ wsRef' # 0
                  /\ ready'[wsRef'] = "CONNECTING"
                  /\ handlers'[wsRef']
                  /\ LiveSockets' = {wsRef'}
                  /\ connectionStateRef' = "connecting"
                  /\ reconnectTimeoutRef' = "null"
                  /\ connectionTimeoutRef' = "pending"]_vars

\* C11 witness: the grace timer has fired and started the new attempt while
\* the socket reconnect() closed is still closing.
C11_Witness ==
  /\ isMountedRef
  /\ graceTimers = 0
  /\ ~connectTimeout
  /\ reconnectAttemptsRef = 0
  /\ wsRef # 0
  /\ ready[wsRef] = "CONNECTING"
  /\ \E ws \in Sockets : ws # wsRef /\ ready[ws] = "CLOSING"

\* C12: while mounted, a visibilitychange to visible with the current socket
\* OPEN changes nothing; with the current socket absent or not OPEN it resets
\* the attempt counter and calls connect(), which leaves a CONNECTING socket
\* alone and otherwise clears the reconnect timer and constructs one new
\* socket at once (the constructor not throwing).
C12_VisibilityRegained ==
  /\ [](( /\ isMountedRef
          /\ wsRef # 0
          /\ ready[wsRef] = "OPEN") =>
         \A throws \in BOOLEAN, jQ \in JitterQ :
           handleVisibilityChange(St, TRUE, throws, jQ) = St)
  /\ [][\A jQ \in JitterQ :
          ( /\ listening
            /\ isMountedRef
            /\ wsRef = 0 \/ ready[wsRef] # "OPEN"
            /\ UNCHANGED <<graceTimers, isConnected, connectTimeout>>
            /\ Set(handleVisibilityChange(St, TRUE, FALSE, jQ)) ) =>
          /\ reconnectAttemptsRef' = 0
          /\ IF wsRef # 0 /\ ready[wsRef] = "CONNECTING"
             THEN UNCHANGED <<ready, handlers, wsRef, reconnectTimeoutRef,
                              connectionTimeoutRef, connectionTimeoutWs,
                              pingIntervalRef, connectionStateRef, error,
                              data, signalHistory, delay>>
             ELSE /\ SocketCreated
                  /\ ready'[wsRef'] = "CONNECTING"
                  /\ handlers'[wsRef']
                  /\ LiveSockets' = {wsRef'}
                  /\ connectionStateRef' = "connecting"
                  /\ reconnectTimeoutRef' = "null"
                  /\ connectionTimeoutRef' = "pending"]_vars

\* C12 witness: the trigger has replaced a current socket that was neither
\* OPEN nor CONNECTING (it is still closing, detached) by a new attempt, with
\* the counter at 0 and no reconnect timer pending.
C12_Witness ==
  /\ isMountedRef
  /\ ~isConnected
  /\ error.kind = "Connecting"
  /\ reconnectAttemptsRef = 0
  /\ reconnectTimeoutRef = "null"
  /\ connectionTimeoutRef = "pending"
  /\ wsRef # 0
  /\ ready[wsRef] = "CONNECTING"
  /\ \E ws \in Sockets : ws # wsRef /\ ready[ws] = "CLOSING" /\ ~handlers[ws]

\* The offline event has been handled while the current socket was OPEN, and
\* the socket is still OPEN: the transport survived. An online event in this
\* state is a call of connect() that returns at the "already connected" guard.
SurvivedOffline ==
  /\ isMountedRef
  /\ wsRef # 0
  /\ ready[wsRef] = "OPEN"
  /\ handlers[wsRef]
  /\ error.kind = "Network offline"
  /\ ~isConnected

\* C13 (as claimed, for the transport that survived the outage): after the
\* offline event, whether or not the online event follows, the connected flag
\* eventually becomes true again unless the hook is unmounted or the
\* transport is lost after all.
C13_RecoversAfterOnline ==
  SurvivedOffline ~>
    (isConnected \/ ~isMountedRef \/ wsRef = 0 \/ ready[wsRef] # "OPEN")

\* C14 (as claimed): the offline event sets the status to "Network offline"
\* and the connected flag to false and marks the connection state closed,
\* closes no socket and leaves the current socket, the attempt counter and
\* every timer as they were.
C14_OfflineMarksClosed ==
  [][(listening /\ Set(handleOffline(St))) =>
       /\ error'.kind = "Network offline"
       /\ ~isConnected'
       /\ connectionStateRef' = "disconnected"
       /\ UNCHANGED <<ready, handlers, wsRef, reconnectAttemptsRef,
                      reconnectTimeoutRef, connectionTimeoutRef,
                      pingIntervalRef, connectTimeout, graceTimers>>]_vars

\* The current socket is OPEN with its handlers set: frames reach onmessage.
CurrentOpen == wsRef # 0 /\ ready[wsRef] = "OPEN" /\ handlers[wsRef]

\* C15: a frame that JSON.parse rejects, arriving on the current OPEN socket,
\* changes nothing at all: sockets, refs, timers, counter and React state.
C15_MalformedFrameIgnored ==
  CurrentOpen =>
    \A f \in Frames : ~f.ok => fireMessage(St, wsRef, f) = St

\* C15 witness: the current socket is OPEN with a snapshot, a history and the
\* heartbeat, which the malformed frame must leave alone.
C15_Witness ==
  /\ CurrentOpen
  /\ isConnected
  /\ data # 0
  /\ signalHistory # <<>>
  /\ pingIntervalRef = "pending"

\* C16: on the current OPEN socket a market_data frame with a payload makes
\* data that payload and makes signalHistory the frame's list if and only if
\* it carries one; a signal_history frame with a list makes signalHistory that
\* list and leaves data alone; and nothing but such a frame ever changes data
\* or signalHistory, so both always hold what the last such frame carried.
C16_FrameDispatch ==
  /\ [](CurrentOpen =>
         \A f \in Frames :
           LET r == fireMessage(St, wsRef, f)
           IN /\ (f.ok /\ f.type = "market_data" /\ f.hasData) =>
                   /\ r.data = f.data
                   /\ r.signalHistory =
                        IF f.hasHist THEN f.hist ELSE signalHistory
              /\ (f.ok /\ f.type = "signal_history" /\ f.hasData) =>
                   /\ r.signalHistory = f.hist
                   /\ r.data = data)
  /\ [][(data' # data \/ signalHistory' # signalHistory) =>
          /\ CurrentOpen
          /\ \E f \in Frames :
               /\ f.ok /\ f.hasData
               /\ f.type \in {"market_data", "signal_history"}
               /\ data' = fireMessage(St, wsRef, f).data
               /\ signalHistory' = fireMessage(St, wsRef, f).signalHistory]_vars

\* C16 witness: a second snapshot has replaced the first and a history list
\* has been received.
C16_Witness ==
  /\ CurrentOpen
  /\ data = 2
  /\ signalHistory = <<2, 1>>

\* C17: a well-formed frame of type connection, pong or any other type,
\* whatever else it carries and on whatever socket it arrives, changes
\* nothing.
C17_OtherFramesIgnored ==
  \A ws \in Sockets :
    ready[ws] = "OPEN" =>
      \A f \in Frames :
        (f.ok /\ f.type \notin {"market_data", "signal_history"}) =>
          fireMessage(St, ws, f) = St

\* C17 witness: the current socket is OPEN and the status shows an error
\* that a pong must not clear.
C17_Witness ==
  /\ CurrentOpen
  /\ error.kind = "Network offline"
  /\ data # 0

\* The connection state is Open: the current socket is OPEN and the hook has
\* recorded it as connected.
StateOpen == CurrentOpen /\ connectionStateRef = "connected"

\* C18: the ping interval is pending only while the connection state is Open;
\* it is armed by, and by nothing but, the open event of the current socket;
\* it is cleared in the step in which the state leaves Open; and a ping is
\* sent only on the current socket, while it is OPEN.
C18_HeartbeatOnlyWhileOpen ==
  /\ [](pingIntervalRef = "pending" => StateOpen)
  /\ [][/\ (pingIntervalRef = "null" /\ pingIntervalRef' = "pending") =>
             /\ wsRef # 0 /\ wsRef' = wsRef
             /\ handlers[wsRef]
             /\ ready[wsRef] = "CONNECTING"
             /\ ready'[wsRef] = "OPEN"
        /\ ( /\ wsRef # 0 /\ handlers[wsRef]
             /\ ready[wsRef] = "CONNECTING"
             /\ ready'[wsRef] = "OPEN" ) => pingIntervalRef' = "pending"
        /\ (StateOpen /\ ~StateOpen') => pingIntervalRef' = "null"
        /\ (lastPingWs' # lastPingWs /\ lastPingWs' # 0) =>
             /\ lastPingWs' = wsRef
             /\ ready[wsRef] = "OPEN"
             /\ pingIntervalRef = "pending"
             /\ UNCHANGED <<ready, wsRef>>]_vars

\* C18 witness: a ping has been sent on the current OPEN socket while a
\* socket of an earlier attempt is still closing.
C18_Witness ==
  /\ StateOpen
  /\ pingIntervalRef = "pending"
  /\ lastPingWs = wsRef
  /\ \E ws \in Sockets : ws # wsRef /\ ready[ws] = "CLOSING"

\* C19: a tick of the ping interval changes nothing but what has been sent
\* on the socket, and the connection state leaves Open only in the close
\* event of the current socket or in a cleanup() by unmount or reconnect():
\* no step closes the socket for want of a pong.
C19_HeartbeatAdvisory ==
  /\ [](pingIntervalRef = "pending" =>
         [onPingInterval(St) EXCEPT !.lastPingWs = lastPingWs] = St)
  /\ [][/\ (lastPingWs' # lastPingWs /\ lastPingWs' # 0) =>
             UNCHANGED <<ready, handlers, sessionVars>>
        /\ (StateOpen /\ ~StateOpen') =>
             \/ ready'[wsRef] \in {"CLOSED", "NONE"}
             \/ /\ wsRef' = 0
                /\ ~handlers'[wsRef]
                /\ ready'[wsRef] = "CLOSING"
                /\ ~isMountedRef' \/ graceTimers' = graceTimers + 1]_vars

\* C19 witness: a ping has been sent on the OPEN current socket, on which no
\* frame has changed anything yet.
C19_Witness ==
  /\ StateOpen
  /\ isConnected
  /\ lastPingWs = wsRef
  /\ data = 0
  /\ signalHistory = <<>>

\* C20: the hook is mounted only while the gate reports authenticated and not
\* loading; while isAuthenticated is false no socket is CONNECTING or OPEN, the
\* hook holds no socket and none of its tracked timers is pending; and the
\* step that drops the authentication is the step that unmounts the hook.
C20_AuthGate ==
  /\ []((listening \/ isMountedRef) => AppRendered(authState))
  /\ [](~authState.isAuthenticated =>
          /\ LiveSockets = {}
          /\ wsRef = 0
          /\ reconnectTimeoutRef = "null"
          /\ connectionTimeoutRef = "null"
          /\ pingIntervalRef = "null"
          /\ ~connectTimeout)
  /\ [][(authState.isAuthenticated /\ ~authState'.isAuthenticated) =>
          /\ ~isMountedRef' /\ ~listening'
          /\ \A ws \in Sockets : ~handlers'[ws]]_vars

\* C20 witness: the wallet has been disconnected while a socket was in
\* flight; the hook is unmounted and that socket is closing.
C20_Witness ==
  /\ ~authState.isAuthenticated
  /\ authPhase = "idle"
  /\ stored = "none"
  /\ ~isMountedRef
  /\ \E ws \in Sockets : ready[ws] = "CLOSING"

\* No attempt is in flight: the current socket is absent, closing or closed.
NoLiveAttempt == wsRef = 0 \/ ready[wsRef] \notin {"CONNECTING", "OPEN"}

\* Something will call connect() or scheduleReconnect() by itself: a pending
\* reconnect, grace or mount timer, or the close event the current socket
\* still owes.
RetryPending ==
  \/ reconnectTimeoutRef = "pending"
  \/ graceTimers > 0
  \/ connectTimeout
  \/ wsRef # 0 /\ handlers[wsRef] /\ ready[wsRef] = "CLOSING"

\* Mounted with no attempt in flight and nothing pending.
Idling == isMountedRef /\ NoLiveAttempt /\ ~RetryPending

\* The close event of the OPEN current socket with code 1000 and reason
\* "Client cleanup".
IntentionalCloseStep ==
  /\ wsRef # 0
  /\ handlers[wsRef]
  /\ ready[wsRef] = "OPEN"
  /\ ready'[wsRef] = "CLOSED"
  /\ \E jQ \in JitterQ :
       Set(fireClose(St, wsRef, CLEANUP_CODE, "Client cleanup", jQ))

\* C21: while mounted, a state with no attempt in flight and nothing pending
\* is entered only by an Intentional close of the current socket (and the
\* hook does not start mounted in one); a connection timeout that acts and a
\* close of the current socket that is not Intentional leave the reconnect
\* timer pending.
C21_FailureSchedulesRetry ==
  [][/\ (Idling' /\ ~Idling) => IntentionalCloseStep
     /\ ( /\ isMountedRef
          /\ connectionTimeoutRef = "pending"
          /\ wsRef # 0 /\ wsRef' = wsRef
          /\ ready[wsRef] = "CONNECTING"
          /\ ready'[wsRef] = "CLOSING" ) => reconnectTimeoutRef' = "pending"
     /\ ( /\ isMountedRef
          /\ wsRef # 0 /\ handlers[wsRef]
          /\ ready[wsRef] # "CLOSED"
          /\ ready'[wsRef] = "CLOSED"
          /\ ~IntentionalCloseStep ) => reconnectTimeoutRef' = "pending"]_vars

\* C21 witness: a Lost close of the current socket has been counted and its
\* retry is pending.
C21_Witness ==
  /\ isMountedRef
  /\ wsRef # 0
  /\ ready[wsRef] = "CLOSED"
  /\ reconnectTimeoutRef = "pending"
  /\ reconnectAttemptsRef = 1
  /\ graceTimers = 0
  /\ ~connectTimeout

\* A failure has been handled while mounted: no attempt is in flight and the
\* reconnect timer is pending.
RetryScheduled ==
  /\ isMountedRef
  /\ NoLiveAttempt
  /\ reconnectTimeoutRef = "pending"

\* C22: with every timer firing, a server that eventually accepts and no
\* unmount, a state in which a retry has been scheduled leads to the current
\* socket OPEN with isConnected true; no trigger and no reconnect() is
\* needed, as none is forced to happen.
C22_RetryLeadsToOpen == RetryScheduled ~> (StateOpen /\ isConnected)

\* C22 witness: the socket of a retry has opened.
C22_Witness ==
  /\ StateOpen
  /\ isConnected
  /\ isMountedRef
  /\ error.kind = "null"
  /\ reconnectAttemptsRef = 0
  /\ \E ws \in Sockets : ws # wsRef /\ ready[ws] = "CLOSING" /\ ~handlers[ws]

C24_HistoryBounded == Len(signalHistory) <= MAX_SIGNALS

\* C25 (as claimed, for the mounted hook, whose state is rendered): whenever
\* isConnected is true the current socket exists and is OPEN.
C25_ConnectedImpliesOpen ==
  (isMountedRef /\ isConnected) => (wsRef # 0 /\ ready[wsRef] = "OPEN")

\* C26: every socket that is not the current one is closing or closed (or
\* gone) with its handlers detached, so at most one socket is CONNECTING or
\* OPEN, however calls of reconnect() within one grace window, triggers and
\* timer firings interleave.
C26_OnlyCurrentLive ==
  /\ \A ws \in Sockets :
       ws # wsRef => (ready[ws] \in {"NONE", "CLOSING", "CLOSED"} /\ ~handlers[ws])
  /\ Cardinality(LiveSockets) <= 1

\* C26 witness: two grace timers of reconnect() are pending while an attempt
\* a trigger started in between is connecting and the socket the first call
\* dropped is still closing.
C26_Witness ==
  /\ graceTimers >= 2
  /\ wsRef # 0
  /\ ready[wsRef] = "CONNECTING"
  /\ \E ws \in Sockets : ws # wsRef /\ ready[ws] = "CLOSING"

\* C27: at most one reconnect timer is set and neither fired nor cleared;
\* while one is pending the connection state is "disconnected" and the
\* current socket, if any, is neither CONNECTING nor OPEN; a step that
\* schedules a reconnect leaves exactly one timer, and a step that constructs
\* a socket leaves none.
C27_OneReconnectTimer ==
  /\ [](reconnectTimers <= 1)
  /\ [](reconnectTimers > 0 =>
          /\ reconnectTimeoutRef = "pending"
          /\ connectionStateRef = "disconnected"
          /\ (wsRef = 0 \/ ready[wsRef] \notin {"CONNECTING", "OPEN"}))
  /\ [][ReconnectScheduled => reconnectTimers' = 1]_vars
  /\ [][SocketCreated => reconnectTimers' = 0]_vars

\* C27 witness: the connection timeout scheduled the first retry and the
\* close event of that socket then the second one, and one timer is pending.
C27_Witness ==
  /\ reconnectTimers = 1
  /\ reconnectAttemptsRef = 2
  /\ wsRef # 0
  /\ ready[wsRef] = "CLOSED"
  /\ connectionTimers = 0

\* C28: at most one connection timeout is set and neither fired nor cleared;
\* while one is pending connectionStateRef is "connecting" and the timeout
\* captured the current socket, which is CONNECTING; a step that constructs a
\* socket leaves exactly one, for that socket; and any other step after which
\* the socket is no longer current or no longer CONNECTING (it opened, closed,
\* or cleanup dropped it on unmount or reconnect()) leaves none.
C28_ConnectionTimeoutScoped ==
  /\ [](connectionTimers <= 1)
  /\ [](connectionTimers > 0 =>
          /\ connectionTimeoutRef = "pending"
          /\ connectionStateRef = "connecting"
          /\ wsRef # 0
          /\ connectionTimeoutWs = wsRef
          /\ ready[wsRef] = "CONNECTING")
  /\ [][SocketCreated =>
          (connectionTimers' = 1 /\ connectionTimeoutWs' = wsRef')]_vars
  /\ [][( /\ connectionTimers > 0
          /\ ~SocketCreated
          /\ (wsRef' # wsRef \/ ready'[wsRef] # "CONNECTING") )
        => connectionTimers' = 0]_vars

\* C28 witness: the timeout of a new attempt is pending while the socket of
\* the attempt it superseded is still closing.
C28_Witness ==
  /\ connectionTimers = 1
  /\ connectionTimeoutWs = wsRef
  /\ wsRef # 0
  /\ ready[wsRef] = "CONNECTING"
  /\ \E ws \in Sockets : ws # wsRef /\ ready[ws] = "CLOSING" /\ ~handlers[ws]

\* The record r holds the snapshot and the history of the current state.
KeepsData(r) == r.data = data /\ r.signalHistory = signalHistory

\* C29: the open and the close event of any socket, every timer callback
\* (mount delay, connection timeout, reconnect timer, grace timer, ping),
\* scheduleReconnect, the visibility, online and offline handlers,
\* reconnect() and the effects' setup and cleanup leave data and
\* signalHistory as they are, in every reachable state; and a step that does
\* change one of them happens with the current socket OPEN and changes
\* nothing of the connection: no socket, ref, timer, counter or flag.
C29_LifecycleKeepsData ==
  /\ [](\A throws \in BOOLEAN, jQ \in JitterQ :
         /\ \A ws \in Sockets :
              /\ ready[ws] = "CONNECTING" => KeepsData(fireOpen(St, ws))
              /\ ready[ws] \in {"CONNECTING", "OPEN", "CLOSING"} =>
                   \A ev \in CloseEvents(ready[ws]) :
                     KeepsData(fireClose(St, ws, ev[1], ev[2], jQ))
              /\ KeepsData(onConnectionTimeout(St, ws, jQ))
         /\ KeepsData(scheduleReconnect(St, jQ))
         /\ KeepsData(onConnectTimeout(St, throws, jQ))
         /\ KeepsData(onReconnectTimeout(St, throws, jQ))
         /\ KeepsData(onGraceTimeout(St, throws, jQ))
         /\ KeepsData(onPingInterval(St))
         /\ \A visible \in BOOLEAN :
              KeepsData(handleVisibilityChange(St, visible, throws, jQ))
         /\ KeepsData(handleOnline(St, throws, jQ))
         /\ KeepsData(handleOffline(St))
         /\ KeepsData(reconnect(St))
         /\ KeepsData(mountEffect(St))
         /\ KeepsData(unmountEffect(St)))
  /\ [][(data' # data \/ signalHistory' # signalHistory) =>
          /\ CurrentOpen
          /\ UNCHANGED <<ready, handlers, wsRef, reconnectTimeoutRef,
                         connectionTimeoutRef, connectionTimeoutWs,
                         pingIntervalRef, reconnectAttemptsRef, isMountedRef,
                         connectionStateRef, isConnected, connectTimeout,
                         graceTimers, listening, reconnectTimers,
                         connectionTimers>>]_vars

\* C29 witness: the snapshot and the history received on an earlier socket
\* are still held while a retry is connecting after a lost connection.
C29_Witness ==
  /\ data # 0
  /\ signalHistory # <<>>
  /\ ~isConnected
  /\ reconnectAttemptsRef >= 1
  /\ wsRef # 0
  /\ ready[wsRef] = "CONNECTING"

\* The sockets constructed and not yet closed and dropped.
Transports == {ws \in Sockets : ready[ws] # "NONE"}

\* A step in which the 50 ms timer of the lifecycle effect fires.
MountTimerStep == connectTimeout /\ ~connectTimeout' /\ listening'

\* C30: when every unmount comes before the 50 ms timer of its mount has
\* fired and no visibilitychange or online event is delivered, no socket
\* exists while the hook is unmounted or that timer is pending, and the
\* firing of that timer constructs exactly one socket, which is current and
\* CONNECTING with its connection timeout armed (or the constructor throws
\* and a retry is scheduled).
C30_StrictModeOneAttempt ==
  /\ []((~listening \/ connectTimeout) => Transports = {})
  /\ [][MountTimerStep =>
          \/ ConstructorThrew /\ Transports' = {}
          \/ /\ wsRef' # 0
             /\ Transports' = {wsRef'}
             /\ ready'[wsRef'] = "CONNECTING"
             /\ handlers'[wsRef']
             /\ connectionTimers' = 1
             /\ connectionTimeoutWs' = wsRef']_vars

\* C30 witness: reconnect() was called in a mount that was then discarded
\* (its grace timer is still pending), and the timer of the following mount
\* has fired and constructed the one socket there is.
C30_Witness ==
  /\ listening
  /\ ~connectTimeout
  /\ graceTimers = 1
  /\ wsRef # 0
  /\ ready[wsRef] = "CONNECTING"
  /\ Transports = {wsRef}
  /\ reconnectAttemptsRef = 0

\* A step in which a call of AuthProvider's connect() ends.
LoginEnds == authPhase = "connecting" /\ authPhase' = "idle"

\* C31: while connect() is in flight the user is not authenticated, and
\* whichever step throws, the catch block leaves isAuthenticated false,
\* isLoading false, a non-null error and localStorage as it was; every step
\* that ends connect() leaves isLoading false, and one that leaves the user
\* unauthenticated leaves an error and has stored nothing.
C31_FailedLogin ==
  /\ [](authPhase = "connecting" =>
         /\ ~authState.isAuthenticated
         /\ \A outcome \in LoginFailures :
              LET r == authConnectDone(authState, outcome)
              IN /\ ~r.isAuthenticated
                 /\ ~r.isLoading
                 /\ r.error # "null"
                 /\ authConnectStorage(stored, outcome) = stored)
  /\ [][LoginEnds => ~authState'.isLoading]_vars
  /\ [][(LoginEnds /\ ~authState'.isAuthenticated) =>
          (authState'.error # "null" /\ stored' = stored)]_vars

\* C31 witness: a login has failed: Login is rendered again with the error,
\* and localStorage still holds the expired session it held before.
C31_Witness ==
  /\ authPhase = "idle"
  /\ ~authState.isAuthenticated
  /\ ~authState.isLoading
  /\ authState.error = "message"
  /\ stored = "expired"

\* The stored text parses to a session with an address and a timestamp at
\* most 24 hours old.
FreshSession(st) ==
  /\ st # "none"
  /\ Parsed(st).ok
  /\ Parsed(st).hasAddress
  /\ Parsed(st).hasTimestamp
  /\ Parsed(st).age <= SESSION_TTL

\* C32 (as claimed): the session check at the page load ends the loading
\* state, and leaves the user authenticated if and only if localStorage
\* holds a session that parses, has an address and is at most 24 hours old.
C32_RestoreOnlyFreshSession ==
  [][(authPhase = "restoring" /\ authPhase' = "idle") =>
       /\ ~authState'.isLoading
       /\ authState'.isAuthenticated <=> FreshSession(stored)]_vars

\* C33: the trade history never holds more than MAX_TRADES entries, none of
\* them for a missing or HOLD signal; every entry was added later than the
\* entries after it; and a step that changes the history puts the entry of
\* the present second first, followed by the entries there were, in their
\* order.
C33_TradeHistoryBounded ==
  /\ [](Len(tradeHistory) <= MAX_TRADES)
  /\ [](\A i \in 1..Len(tradeHistory) :
          tradeHistory[i].signal \notin {"none", "HOLD"})
  /\ [](\A i, j \in 1..Len(tradeHistory) :
          i < j => tradeHistory[i].at > tradeHistory[j].at)
  /\ [][tradeHistory' # tradeHistory =>
          /\ Len(tradeHistory') = Min(Len(tradeHistory) + 1, MAX_TRADES)
          /\ tradeHistory'[1].at = now
          /\ \A i \in 2..Len(tradeHistory') :
               tradeHistory'[i] = tradeHistory[i - 1]]_vars

\* C33 witness: the history is full, its first entry was added after it had
\* become full and the oldest entry of the first MAX_TRADES trades is gone.
C33_Witness ==
  /\ Len(tradeHistory) = MAX_TRADES
  /\ tradeHistory[1].at > MAX_TRADES
  /\ tradeHistory[MAX_TRADES].at > 0

====
